---------------------------- MODULE Spec2Model ----------------------------
(***************************************************************************)
(* Model of the Pusher Push Notifications Go client                        *)
(* (src/push_notifications.go): the validation of interests and user ids,  *)
(* the injection of the identifiers into the caller's payload map, the     *)
(* JSON marshalling, the single transport call and the interpretation of   *)
(* its response, and the construction of the user-authentication token.    *)
(*                                                                         *)
(* Strings are modelled by their content counted per class of character:   *)
(* every function of the source that is modelled here (len, the interest   *)
(* regular expression, utf8.ValidString, the JSON string encoding, the     *)
(* host check of url.Parse) depends only on these counts.  Lists of        *)
(* strings are run-length encoded: <<[n |-> 3, s |-> x]>> is the slice     *)
(* {x, x, x}.                                                              *)
(***************************************************************************)
EXTENDS Integers, Sequences, FiniteSets, TLC

VARIABLES pn, maps, last, thr

vars == <<pn, maps, last, thr>>

---------------------------------------------------------------------------
(* Program constants *)

maxUserIdLength == 164

maxNumUserIds == 1000

maxNumInterests == 10

maxInterestLength == 164

tokenLifetime == 86400

StatusOK == 200

(* Bounds of the model *)

MaxRuns == 2

MaxTime == 2

---------------------------------------------------------------------------
(* Strings *)

\* a: ASCII characters of [a-zA-Z0-9_\-=@,.;]; sp: ASCII spaces; w2: valid
\* two-byte characters; w3: valid three-byte characters; bad: bytes that are
\* not part of any valid UTF-8 sequence.
Mk(a, sp, w2, w3, bad) == [a |-> a, sp |-> sp, w2 |-> w2, w3 |-> w3, bad |-> bad]

EmptyString == Mk(0, 0, 0, 0, 0)

\* Go's len(s): the number of bytes.
len(s) == s.a + s.sp + 2 * s.w2 + 3 * s.w3 + s.bad

\* The number of characters (runes); an invalid byte decodes as one rune.
RuneCount(s) == s.a + s.sp + s.w2 + s.w3 + s.bad

\* utf8.ValidString
ValidString(s) == s.bad = 0

\* interestValidationRegex.MatchString: ^[a-zA-Z0-9_\-=@,.;]+$
interestValidationRegex(s) ==
    /\ s.a >= 1
    /\ s.sp = 0 /\ s.w2 = 0 /\ s.w3 = 0 /\ s.bad = 0

\* encoding/json writes a string with every invalid byte replaced by U+FFFD,
\* a three-byte character; decoding the result gives this string.
JsonString(s) == [s EXCEPT !.w3 = s.w3 + s.bad, !.bad = 0]

---------------------------------------------------------------------------
(* Lists of strings (run-length encoded slices) *)

RECURSIVE ListLen(_)
ListLen(l) == IF l = <<>> THEN 0 ELSE Head(l).n + ListLen(Tail(l))

\* The entry at index i (1-based) of the slice.
RECURSIVE Entry(_, _)
Entry(l, i) == IF i <= Head(l).n THEN Head(l).s ELSE Entry(Tail(l), i - Head(l).n)

JsonList(l) == [i \in 1..Len(l) |-> [n |-> l[i].n, s |-> JsonString(l[i].s)]]

---------------------------------------------------------------------------
(* Errors: the message of the error, the number and the string its message
   is formatted with, and the message of the error it wraps. *)

Err(msg, n, s, cause) == [msg |-> msg, n |-> n, s |-> s, cause |-> cause]

NoErr == Err("", 0, EmptyString, "")

Wrap(cause, msg) == Err(msg, 0, EmptyString, cause)

NoInterestsMsg == "No interests were supplied"
TooManyInterestsMsg == "Too many interests supplied (%d): API only supports up to 10"
EmptyInterestMsg == "An empty interest name is not valid"
InterestTooLongMsg == "Interest length is %d which is over 164 characters"
InterestForbiddenMsg == "Interest %s contains an forbidden character"
NoUsersMsg == "Must supply at least one user id"
TooManyUsersMsg == "Too many user ids supplied. API supports up to %d, got %d"
EmptyUserMsg == "Empty user ids are not valid"
UserTooLongMsg == "User Id length too long (expected fewer than 164 characters, got %d)"
UserNotUtf8Msg == "User Id at index %d is not valid utf8"
AuthEmptyUserMsg == "User Id cannot be empty"
AuthUserTooLongMsg == "User Id length too long (expected fewer than 165 characters, got %d)"
SignFailedMsg == "Failed to sign the JWT token used for User Authentication"
MarshalFailedMsg == "Failed to marshal the publish request JSON body"
PrepareFailedMsg == "Failed to prepare the publish request"
NetworkErrorMsg == "Failed to publish notifications due to a network error"
ReadErrorMsg == "Failed to read publish notification response due to a network error"
InvalidJsonMsg == "Failed to read publish notification response due to invalid JSON"
PublishFailedMsg == "Failed to publish notification"

---------------------------------------------------------------------------
(* Validation *)

\* The loop over the interests, from the first run on (lines 121-139).
RECURSIVE ScanInterests(_)
ScanInterests(l) ==
    IF l = <<>> THEN NoErr
    ELSE LET interest == Head(l).s IN
         IF len(interest) = 0 THEN Err(EmptyInterestMsg, 0, EmptyString, "")
         ELSE IF len(interest) > maxInterestLength
              THEN Err(InterestTooLongMsg, len(interest), EmptyString, "")
         ELSE IF ~interestValidationRegex(interest)
              THEN Err(InterestForbiddenMsg, 0, interest, "")
         ELSE ScanInterests(Tail(l))

\* A plausible slip: the entries are scanned before the list is counted.
ValidateInterestsScanFirst(interests) ==
    IF ListLen(interests) = 0 THEN Err(NoInterestsMsg, 0, EmptyString, "")
    ELSE IF ScanInterests(interests) # NoErr THEN ScanInterests(interests)
    ELSE IF ListLen(interests) > maxNumInterests
         THEN Err(TooManyInterestsMsg, ListLen(interests), EmptyString, "")
    ELSE NoErr

ValidateInterests(interests) ==
    IF ListLen(interests) = 0 THEN Err(NoInterestsMsg, 0, EmptyString, "")
    ELSE IF ListLen(interests) > maxNumInterests
         THEN Err(TooManyInterestsMsg, ListLen(interests), EmptyString, "")
    ELSE ScanInterests(interests)

\* The loop over the user ids; i is the index of the first entry of l.
RECURSIVE ScanUsers(_, _)
ScanUsers(l, i) ==
    IF l = <<>> THEN NoErr
    ELSE LET userId == Head(l).s IN
         IF userId = EmptyString THEN Err(EmptyUserMsg, 0, EmptyString, "")
         ELSE IF len(userId) > maxUserIdLength
              THEN Err(UserTooLongMsg, len(userId), userId, "")
         ELSE IF ~ValidString(userId) THEN Err(UserNotUtf8Msg, i, EmptyString, "")
         ELSE ScanUsers(Tail(l), i + Head(l).n)

ValidateUserIds(users) ==
    IF ListLen(users) = 0 THEN Err(NoUsersMsg, 0, EmptyString, "")
    ELSE IF ListLen(users) > maxNumUserIds
         THEN Err(TooManyUsersMsg, ListLen(users), EmptyString, "")
    ELSE ScanUsers(users, 0)

---------------------------------------------------------------------------
(* The client *)

\* fmt.Sprintf(defaultBaseEndpointFormat, instanceId)
BaseEndpoint(instanceId) ==
    [scheme |-> "https://", host |-> instanceId, domain |-> ".pushnotifications.pusher.com"]

\* New: the client for a non-empty instance id and a non-empty secret key.
New(instanceId, secretKey) ==
    [InstanceId |-> instanceId, SecretKey |-> secretKey,
     baseEndpoint |-> BaseEndpoint(instanceId), httpClient |-> "httpClient"]

NewFails(instanceId, secretKey) == instanceId = EmptyString \/ secretKey = EmptyString

---------------------------------------------------------------------------
(* Payload maps: map[string]interface{} *)

MapKeys == {"apns", "interests", "users"}

Absent == [t |-> "absent", v |-> <<>>]
\* a value encoding/json can write (here: a nested object)
JsonValue == [t |-> "json", v |-> <<>>]
\* a value encoding/json cannot write (a channel, a func)
ChanValue == [t |-> "chan", v |-> <<>>]
\* a []string
Strings(l) == [t |-> "strings", v |-> l]

EmptyMap == [k \in MapKeys |-> Absent]

KeysOf(m) == {k \in MapKeys : m[k].t # "absent"}

\* The request argument of a call: nil, or a reference to a map of the caller.
NilMap == "nil"

\* json.Marshal(request): fails on a value it cannot write; the strings of a
\* list are written by JsonString.
Marshal(m) ==
    IF \E k \in MapKeys : m[k].t = "chan"
    THEN [bytes |-> EmptyMap, err |-> Err("json: unsupported type", 0, EmptyString, "")]
    ELSE [bytes |-> [k \in MapKeys |->
                        IF m[k].t = "strings" THEN Strings(JsonList(m[k].v)) ELSE m[k]],
          err |-> NoErr]

---------------------------------------------------------------------------
(* Transport responses *)

Field(t, s) == [t |-> t, s |-> s]
NoField == Field("absent", "")

\* syntax: "invalid" (not JSON), "null", or "object" with the three fields.
Body(syntax, publishId, error, description) ==
    [syntax |-> syntax, publishId |-> publishId, error |-> error,
     description |-> description]

NoBody == Body("invalid", NoField, NoField, NoField)

\* What httpClient.Do and ioutil.ReadAll produce: Do fails ("doErr"), or Do
\* returns a response with a status whose body cannot be read ("readErr"), or
\* a response with a status and a body.
Response(kind, status, body) == [kind |-> kind, status |-> status, body |-> body]

NoResp == Response("none", 0, NoBody)

\* json.Unmarshal into a string field of a struct.
UnmarshalField(bytes, f) ==
    IF bytes.syntax = "object" /\ f.t = "string" THEN f.s ELSE ""

\* json.Unmarshal fails on text that is not JSON and on a field of the struct
\* whose JSON value is not a string.
UnmarshalFails(bytes, fields) ==
    \/ bytes.syntax = "invalid"
    \/ bytes.syntax = "object" /\ \E f \in fields : f.t = "number"

---------------------------------------------------------------------------
(* Results *)

NoToken == [signed |-> FALSE, sub |-> EmptyString, exp |-> 0,
            iss |-> BaseEndpoint(EmptyString), key |-> EmptyString]

Result(publishId, token, err, fault) ==
    [publishId |-> publishId, token |-> token, err |-> err, fault |-> fault]

Return(publishId, err) == Result(publishId, NoToken, err, FALSE)

\* A run-time panic ("assignment to entry in nil map"): nothing is returned.
Panic == Result("", NoToken, NoErr, TRUE)

---------------------------------------------------------------------------
(* publishToAPI *)

Url(suffix) == [base |-> pn.baseEndpoint, instance |-> pn.InstanceId, suffix |-> suffix]

\* http.NewRequest fails when url.Parse rejects the URL: a space in the host.
NewRequestFails(url) == url.base.host.sp > 0

Request(url, bodyRequestBytes) ==
    [method |-> "POST", url |-> url, body |-> bodyRequestBytes,
     authorization |-> pn.SecretKey]

\* A plausible slip: a body with a publishId is a success whatever the status.
InterpretResponseAnyStatus(resp) ==
    IF resp.status = StatusOK \/ resp.body.publishId.t = "string"
    THEN IF UnmarshalFails(resp.body, {resp.body.publishId})
         THEN Return("", Wrap("json", InvalidJsonMsg))
         ELSE Return(UnmarshalField(resp.body, resp.body.publishId), NoErr)
    ELSE IF UnmarshalFails(resp.body, {resp.body.error, resp.body.description})
         THEN Return("", Wrap("json", InvalidJsonMsg))
         ELSE Return("", Wrap(UnmarshalField(resp.body, resp.body.error) \o ": "
                                \o UnmarshalField(resp.body, resp.body.description),
                              PublishFailedMsg))

\* The switch on the status code of a response that was read (lines 206-224).
InterpretResponse(resp) ==
    IF resp.status = StatusOK
    THEN IF UnmarshalFails(resp.body, {resp.body.publishId})
         THEN Return("", Wrap("json", InvalidJsonMsg))
         ELSE Return(UnmarshalField(resp.body, resp.body.publishId), NoErr)
    ELSE IF UnmarshalFails(resp.body, {resp.body.error, resp.body.description})
         THEN Return("", Wrap("json", InvalidJsonMsg))
         ELSE Return("", Wrap(UnmarshalField(resp.body, resp.body.error) \o ": "
                                \o UnmarshalField(resp.body, resp.body.description),
                              PublishFailedMsg))

\* A plausible slip: the request is sent again when the transport fails.
publishToAPIRetry(url, bodyRequestBytes, resp) ==
    IF NewRequestFails(url)
    THEN [ret |-> Return("", Wrap("parse", PrepareFailedMsg)), sent |-> <<>>]
    ELSE LET sent == <<Request(url, bodyRequestBytes)>> IN
         IF resp.kind = "doErr"
         THEN [ret |-> Return("", Wrap("transport", NetworkErrorMsg)),
               sent |-> sent \o sent]
         ELSE IF resp.kind = "readErr"
         THEN [ret |-> Return("", Wrap("read", ReadErrorMsg)), sent |-> sent]
         ELSE [ret |-> InterpretResponse(resp), sent |-> sent]

\* ret: what the call returns; sent: the requests handed to the transport.
publishToAPI(url, bodyRequestBytes, resp) ==
    IF NewRequestFails(url)
    THEN [ret |-> Return("", Wrap("parse", PrepareFailedMsg)), sent |-> <<>>]
    ELSE LET sent == <<Request(url, bodyRequestBytes)>> IN
         IF resp.kind = "doErr"
         THEN [ret |-> Return("", Wrap("transport", NetworkErrorMsg)), sent |-> sent]
         ELSE IF resp.kind = "readErr"
         THEN [ret |-> Return("", Wrap("read", ReadErrorMsg)), sent |-> sent]
         ELSE [ret |-> InterpretResponse(resp), sent |-> sent]

---------------------------------------------------------------------------
(* The publish calls.  heap: the maps of the caller when the call starts;
   request: NilMap or a reference into heap.  The result holds the heap when
   the call ends. *)

Outcome(ret, heap, sent) == [ret |-> ret, heap |-> heap, sent |-> sent]

\* request[key] = ids; json.Marshal(request); publishToAPI (lines 141-148, 175-182)
InjectAndPublish(key, ids, suffix, request, heap, resp) ==
    IF request = NilMap THEN Outcome(Panic, heap, <<>>)
    ELSE LET written == [heap EXCEPT ![request][key] = Strings(ids)]
             marshalled == Marshal(written[request])
         IN  IF marshalled.err # NoErr
             THEN Outcome(Return("", Wrap(marshalled.err.msg, MarshalFailedMsg)),
                          written, <<>>)
             ELSE LET api == publishToAPI(Url(suffix), marshalled.bytes, resp)
                  IN  Outcome(api.ret, written, api.sent)

PublishToInterests(interests, request, heap, resp) ==
    IF ValidateInterests(interests) # NoErr
    THEN Outcome(Return("", ValidateInterests(interests)), heap, <<>>)
    ELSE InjectAndPublish("interests", interests, "/publishes", request, heap, resp)

PublishToUsers(users, request, heap, resp) ==
    IF ValidateUserIds(users) # NoErr
    THEN Outcome(Return("", ValidateUserIds(users)), heap, <<>>)
    ELSE InjectAndPublish("users", users, "/publishes/users", request, heap, resp)

Publish(interests, request, heap, resp) ==
    PublishToInterests(interests, request, heap, resp)

---------------------------------------------------------------------------
(* AuthenticateUser *)

\* jwt.NewWithClaims(...).SignedString(key): the claims are written as JSON
\* and signed with HMAC-SHA256, which does not fail for a []byte key.
SignedString(sub, exp, iss, key) ==
    [token |-> [signed |-> TRUE, sub |-> JsonString(sub), exp |-> exp,
                iss |-> [iss EXCEPT !.host = JsonString(iss.host)], key |-> key],
     err |-> NoErr]

AuthenticateUser(userId, now) ==
    IF len(userId) = 0
    THEN Result("", NoToken, Err(AuthEmptyUserMsg, 0, EmptyString, ""), FALSE)
    ELSE IF len(userId) > maxUserIdLength
    THEN Result("", NoToken, Err(AuthUserTooLongMsg, len(userId), userId, ""), FALSE)
    ELSE LET s == SignedString(userId, now + tokenLifetime,
                               BaseEndpoint(pn.InstanceId), pn.SecretKey)
         IN  IF s.err # NoErr
             THEN Result("", NoToken, Wrap(s.err.msg, SignFailedMsg), FALSE)
             ELSE Result("", s.token, NoErr, FALSE)

---------------------------------------------------------------------------
(* Inputs *)

Ascii(n) == Mk(n, 0, 0, 0, 0)
\* n two-byte characters
Wide(n) == Mk(0, 0, n, 0, 0)
\* an allowed character and a space
WithSpace == Mk(1, 1, 0, 0, 0)
\* an allowed character and a byte that is not UTF-8
NotUtf8 == Mk(1, 0, 0, 0, 1)

Run(n, s) == [n |-> n, s |-> s]

Lists(runs, k) == UNION {[1..j -> runs] : j \in 0..k}

InterestStrings ==
    {EmptyString, Ascii(1), Ascii(maxInterestLength), Ascii(maxInterestLength + 1),
     WithSpace, Wide(100)}

InterestRuns ==
    {Run(1, s) : s \in InterestStrings} \cup {Run(maxNumInterests, Ascii(1))}

UserStrings ==
    {EmptyString, Ascii(maxUserIdLength), Ascii(maxUserIdLength + 1),
     Wide(82), Wide(maxUserIdLength), NotUtf8}

UserRuns ==
    {Run(1, s) : s \in UserStrings} \cup {Run(maxNumUserIds, Ascii(1))}

InstanceIds == {Ascii(4), Mk(4, 1, 0, 0, 0)}

SecretKeys == {Ascii(8)}

MapRefs == {"m1"}

Requests == MapRefs \cup {NilMap}

\* The payloads a caller builds before it publishes.
Payloads ==
    {[k \in MapKeys |-> IF k = "apns" THEN a ELSE IF k = "interests" THEN i ELSE u] :
        a \in {Absent, JsonValue, ChanValue}, i \in {Absent, JsonValue},
        u \in {Absent, JsonValue}}

Bodies ==
    {Body("invalid", NoField, NoField, NoField),
     Body("null", NoField, NoField, NoField),
     Body("object", NoField, NoField, NoField),
     Body("object", Field("string", "pub123"), NoField, NoField),
     Body("object", Field("string", ""), NoField, NoField),
     Body("object", Field("number", ""), NoField, NoField),
     Body("object", NoField, Field("string", "ServerError"), Field("string", "boom")),
     Body("object", NoField, Field("number", ""), Field("string", "boom"))}

Statuses == {StatusOK, 401, 500}

Responses ==
    {Response("doErr", 0, NoBody), Response("readErr", StatusOK, NoBody)}
    \cup {Response("resp", s, b) : s \in Statuses, b \in Bodies}

---------------------------------------------------------------------------
(* The state: the client (pn), the maps of the caller (maps), and the record
   of the last call (last): its inputs, the response the transport gave, what
   the call returned and the requests it handed to the transport. *)

Call(op, ids, userId, request, now, resp, ret, sent) ==
    [op |-> op, ids |-> ids, userId |-> userId, req |-> request, now |-> now,
     resp |-> resp, ret |-> ret, sent |-> sent]

NoCall == Call("none", <<>>, EmptyString, NilMap, 0, NoResp, Return("", NoErr), <<>>)

Published(op, ids, request, resp, out) ==
    /\ maps' = out.heap
    /\ last' = Call(op, ids, EmptyString, request, 0,
                    IF out.sent = <<>> THEN NoResp ELSE resp, out.ret, out.sent)
    /\ UNCHANGED <<pn, thr>>

CallPublishToInterests(interests, request, heap, resp) ==
    Published("PublishToInterests", interests, request, resp,
              PublishToInterests(interests, request, heap, resp))

CallPublish(interests, request, heap, resp) ==
    Published("Publish", interests, request, resp,
              Publish(interests, request, heap, resp))

CallPublishToUsers(users, request, heap, resp) ==
    Published("PublishToUsers", users, request, resp,
              PublishToUsers(users, request, heap, resp))

CallAuthenticateUser(userId, now) ==
    /\ last' = Call("AuthenticateUser", <<>>, userId, NilMap, now, NoResp,
                    AuthenticateUser(userId, now), <<>>)
    /\ UNCHANGED <<pn, maps, thr>>

\* The maps of a caller that has just built an empty payload.
Fresh == [r \in MapRefs |-> EmptyMap]

\* The goroutines of SpecC, none of which has called yet.
Threads == {"g1", "g2"}

Thread(pc, op, ids, userId, request, heap, body, resp, ret) ==
    [pc |-> pc, op |-> op, ids |-> ids, userId |-> userId, req |-> request,
     heap |-> heap, body |-> body, resp |-> resp, ret |-> ret]

Idle ==
    [t \in Threads |->
        Thread("idle", "none", <<>>, EmptyString, NilMap, Fresh, EmptyMap, NoResp,
               Return("", NoErr))]

Init ==
    /\ \E instanceId \in InstanceIds, secretKey \in SecretKeys :
          /\ ~NewFails(instanceId, secretKey)
          /\ pn = New(instanceId, secretKey)
    /\ maps \in [MapRefs -> Payloads]
    /\ last = NoCall
    /\ thr = Idle

(* Spec: calls one after the other, on maps the caller keeps and reuses. *)

Next ==
    \/ \E interests \in Lists({Run(1, Ascii(1)), Run(1, WithSpace)}, 1),
          request \in Requests, resp \in Responses :
          CallPublishToInterests(interests, request, maps, resp)
    \/ \E interests \in Lists({Run(1, Ascii(1)), Run(1, WithSpace)}, 1),
          request \in Requests, resp \in Responses :
          CallPublish(interests, request, maps, resp)
    \/ \E users \in Lists({Run(1, Ascii(1)), Run(1, NotUtf8)}, 1),
          request \in Requests, resp \in Responses :
          CallPublishToUsers(users, request, maps, resp)
    \/ \E userId \in UserStrings \cup {Wide(100)}, now \in 0..MaxTime :
          CallAuthenticateUser(userId, now)

Spec == Init /\ [][Next]_vars

(* SpecV: calls one after the other, each on a payload built for the call,
   with lists of up to MaxRuns runs. *)

InitV ==
    /\ pn = New(Ascii(4), Ascii(8))
    /\ maps = Fresh
    /\ last = NoCall
    /\ thr = Idle

ResponsesV ==
    {Response("doErr", 0, NoBody),
     Response("resp", StatusOK, Body("object", Field("string", "pub123"), NoField, NoField))}

NextV ==
    \/ \E interests \in Lists(InterestRuns, MaxRuns),
          resp \in ResponsesV :
          CallPublishToInterests(interests, "m1", Fresh, resp)
    \/ \E users \in Lists(UserRuns, MaxRuns),
          resp \in ResponsesV :
          CallPublishToUsers(users, "m1", Fresh, resp)

SpecV == InitV /\ [][NextV]_vars

---------------------------------------------------------------------------
(* SpecC: two goroutines call the client at the same time.  A call is a
   sequence of steps: the validation, the write of the map (request[key] =
   ids), the read of the map (json.Marshal) and the transport call.  A write
   of a map while another goroutine writes or reads the same map, and a read
   while another goroutine writes it, is a data race: the Go runtime may stop
   the process ("fatal error: concurrent map writes") or let the access go
   on. *)

KeyOf(op) == IF op = "PublishToUsers" THEN "users" ELSE "interests"

SuffixOf(op) == IF op = "PublishToUsers" THEN "/publishes/users" ELSE "/publishes"

ValidationOf(op, ids) ==
    IF op = "PublishToUsers" THEN ValidateUserIds(ids) ELSE ValidateInterests(ids)

Done(t, ret) == [thr EXCEPT ![t].pc = "done", ![t].ret = ret]

\* The process stops: no call in progress returns.
Fatal ==
    [t \in Threads |->
        IF thr[t].pc \in {"idle", "done"} THEN thr[t]
        ELSE [thr[t] EXCEPT !.pc = "done", !.ret = Panic]]

Races(t, pcs) ==
    \E u \in Threads \ {t} : thr[u].pc \in pcs /\ thr[u].req = thr[t].req

\* The call starts: the validation (lines 111-139, 152-173).
Begin(t, op, ids, request) ==
    /\ thr[t].pc = "idle"
    /\ LET started == Thread("write", op, ids, EmptyString, request, maps,
                             EmptyMap, NoResp, Return("", NoErr))
       IN  thr' = [thr EXCEPT ![t] =
                      IF ValidationOf(op, ids) # NoErr
                      THEN [started EXCEPT !.pc = "done",
                                           !.ret = Return("", ValidationOf(op, ids))]
                      ELSE started]
    /\ UNCHANGED <<pn, maps, last>>

\* request[key] = ids starts (lines 141, 175).
StartWrite(t) ==
    /\ thr[t].pc = "write"
    /\ \/ /\ thr[t].req = NilMap
          /\ thr' = Done(t, Panic)
       \/ /\ thr[t].req # NilMap
          /\ thr' = [thr EXCEPT ![t].pc = "writing"]
       \/ /\ thr[t].req # NilMap
          /\ Races(t, {"writing", "reading"})
          /\ thr' = Fatal
    /\ UNCHANGED <<pn, maps, last>>

\* request[key] = ids ends.
EndWrite(t) ==
    /\ thr[t].pc = "writing"
    /\ \/ /\ maps' = [maps EXCEPT ![thr[t].req][KeyOf(thr[t].op)] = Strings(thr[t].ids)]
          /\ thr' = [thr EXCEPT ![t].pc = "marshal"]
       \/ /\ Races(t, {"writing"})
          /\ thr' = Fatal
          /\ UNCHANGED maps
    /\ UNCHANGED <<pn, last>>

\* json.Marshal(request) starts to read the map (lines 142, 176).
StartRead(t) ==
    /\ thr[t].pc = "marshal"
    /\ \/ thr' = [thr EXCEPT ![t].pc = "reading"]
       \/ /\ Races(t, {"writing"})
          /\ thr' = Fatal
    /\ UNCHANGED <<pn, maps, last>>

\* json.Marshal(request) returns (lines 142-145, 176-179).
EndRead(t) ==
    /\ thr[t].pc = "reading"
    /\ LET marshalled == Marshal(maps[thr[t].req]) IN
       thr' = IF marshalled.err # NoErr
              THEN Done(t, Return("", Wrap(marshalled.err.msg, MarshalFailedMsg)))
              ELSE [thr EXCEPT ![t].pc = "send", ![t].body = marshalled.bytes]
    /\ UNCHANGED <<pn, maps, last>>

\* publishToAPI (lines 147-148, 181-182).
Send(t, resp) ==
    /\ thr[t].pc = "send"
    /\ LET api == publishToAPI(Url(SuffixOf(thr[t].op)), thr[t].body, resp) IN
       thr' = [thr EXCEPT ![t].pc = "done", ![t].ret = api.ret,
                          ![t].resp = IF api.sent = <<>> THEN NoResp ELSE resp]
    /\ UNCHANGED <<pn, maps, last>>

\* AuthenticateUser reads the client only.
Authenticate(t, userId, now) ==
    /\ thr[t].pc = "idle"
    /\ thr' = [thr EXCEPT ![t] =
                  Thread("done", "AuthenticateUser", <<>>, userId, NilMap, maps,
                         EmptyMap, NoResp, AuthenticateUser(userId, now))]
    /\ UNCHANGED <<pn, maps, last>>

InitC ==
    /\ pn = New(Ascii(4), Ascii(8))
    /\ maps \in [MapRefs -> {EmptyMap, [EmptyMap EXCEPT !["apns"] = ChanValue]}]
    /\ last = NoCall
    /\ thr = Idle

ResponsesC ==
    {Response("doErr", 0, NoBody),
     Response("resp", StatusOK, Body("object", Field("string", "pub123"), NoField, NoField)),
     Response("resp", 500,
              Body("object", NoField, Field("string", "ServerError"), Field("string", "boom")))}

NextC ==
    \E t \in Threads :
        \/ \E op \in {"PublishToInterests", "Publish", "PublishToUsers"},
              ids \in Lists({Run(1, Ascii(1))}, 1), request \in Requests :
              Begin(t, op, ids, request)
        \/ StartWrite(t)
        \/ EndWrite(t)
        \/ StartRead(t)
        \/ EndRead(t)
        \/ \E resp \in ResponsesC : Send(t, resp)
        \/ \E userId \in {EmptyString, Ascii(1)} : Authenticate(t, userId, 0)

SpecC == InitC /\ [][NextC]_vars

---------------------------------------------------------------------------
(* Properties *)

PublishOps == {"PublishToInterests", "Publish", "PublishToUsers"}

TargetKeys == {"interests", "users"}

InterestValidationMsgs ==
    {NoInterestsMsg, TooManyInterestsMsg, EmptyInterestMsg, InterestTooLongMsg,
     InterestForbiddenMsg}

UserValidationMsgs ==
    {NoUsersMsg, TooManyUsersMsg, EmptyUserMsg, UserTooLongMsg, UserNotUtf8Msg}

NetworkMsgs == {NetworkErrorMsg, ReadErrorMsg}

\* The last call was a publish call whose validation and serialization succeeded.
ValidatedAndSerialized ==
    /\ last.op \in PublishOps
    /\ ValidationOf(last.op, last.ids) = NoErr
    /\ last.req # NilMap
    /\ Marshal(maps[last.req]).err = NoErr

\* C1: every request body handed to the transport holds exactly one of the
\* keys interests and users, and the value of that key is a non-empty list.
C1_ExactlyOneTargetKey ==
    \A i \in 1..Len(last.sent) :
        LET body == last.sent[i].body IN
        /\ Cardinality(KeysOf(body) \cap TargetKeys) = 1
        /\ \A k \in KeysOf(body) \cap TargetKeys :
              body[k].t = "strings" /\ ListLen(body[k].v) > 0

\* C2 as claimed: a publish call hands at most one request to the transport,
\* none when the validation or the serialization fails, and exactly one when
\* the validation and the serialization both succeed.
C2_OnceWhenSerialized ==
    last.op \in PublishOps =>
        /\ Len(last.sent) <= 1
        /\ ~ValidatedAndSerialized => Len(last.sent) = 0
        /\ ValidatedAndSerialized => Len(last.sent) = 1

\* C2 as amended: a publish call hands at most one request to the transport,
\* none when the validation, the serialization or the preparation of the HTTP
\* request (http.NewRequest) fails, and exactly one when all three succeed.
C2_OnceWhenPrepared ==
    last.op \in PublishOps =>
        /\ Len(last.sent) <= 1
        /\ ~ValidatedAndSerialized => Len(last.sent) = 0
        /\ ValidatedAndSerialized /\ pn.InstanceId.sp > 0 => Len(last.sent) = 0
        /\ ValidatedAndSerialized /\ pn.InstanceId.sp = 0 => Len(last.sent) = 1

\* A publish call whose only request met a transport failure: it was not sent again.
C2_Witness ==
    /\ last.op = "PublishToUsers"
    /\ ValidatedAndSerialized
    /\ last.resp.kind = "doErr"
    /\ Len(last.sent) = 1

\* C3: a publish call that returns gives a non-empty publishId with a nil
\* error, or an empty publishId with a non-nil error.
C3_IdOrError ==
    last.op \in PublishOps /\ ~last.ret.fault =>
        \/ last.ret.publishId # "" /\ last.ret.err = NoErr
        \/ last.ret.publishId = "" /\ last.ret.err # NoErr

\* C4: a publish call that returns an error leaves the client and the maps of
\* the caller as they were.
C4_ErrorChangesNothing ==
    [][last'.op \in PublishOps /\ last'.ret.err # NoErr
          => maps' = maps /\ pn' = pn]_vars

\* C5: no call ends in a panic; every call returns a result and an error.
C5_NoPanic == ~last.ret.fault

\* The result the call of goroutine t has when it runs alone, from the maps
\* it was given, when the transport answers resp.
Alone(t, resp) ==
    IF thr[t].op = "AuthenticateUser" THEN AuthenticateUser(thr[t].userId, 0)
    ELSE IF thr[t].op = "PublishToUsers"
    THEN PublishToUsers(thr[t].ids, thr[t].req, thr[t].heap, resp).ret
    ELSE PublishToInterests(thr[t].ids, thr[t].req, thr[t].heap, resp).ret

\* C6: in every interleaving the client is never written, and the result of
\* every call is the result it has when it runs alone with the same inputs
\* and the same response of the transport.
C6_ResultAsAlone ==
    \A t \in Threads :
        thr[t].pc = "done" =>
            /\ pn = New(pn.InstanceId, pn.SecretKey)
            /\ IF thr[t].resp # NoResp THEN thr[t].ret = Alone(t, thr[t].resp)
               ELSE \E resp \in ResponsesC : thr[t].ret = Alone(t, resp)

\* A user id as the claim accepts it: valid UTF-8 of 1 to 164 characters.
UserIdOk(s) == ValidString(s) /\ RuneCount(s) >= 1 /\ RuneCount(s) <= maxUserIdLength

\* C7: PublishToUsers passes the validation exactly when the list has 1 to
\* 1000 entries, each valid UTF-8 of 1 to 164 characters; an entry of more
\* than 164 characters is rejected with the length error.
C7_UsersValidByCharacters ==
    last.op = "PublishToUsers" =>
        /\ last.ret.err.msg \notin UserValidationMsgs
              <=> /\ ListLen(last.ids) >= 1
                  /\ ListLen(last.ids) <= maxNumUserIds
                  /\ \A j \in 1..Len(last.ids) : UserIdOk(last.ids[j].s)
        /\ last.ret.err.msg = UserTooLongMsg
              => \E j \in 1..Len(last.ids) : RuneCount(last.ids[j].s) > maxUserIdLength

\* C8: AuthenticateUser fails, with no token, exactly when the user id is
\* empty or longer than 164 characters; otherwise the token has sub = userId,
\* iss = https://{instanceId}.pushnotifications.pusher.com and
\* exp = issuance time + 24 hours, after the issuance time.
C8_TokenByCharacters ==
    last.op = "AuthenticateUser" =>
        IF RuneCount(last.userId) = 0 \/ RuneCount(last.userId) > maxUserIdLength
        THEN last.ret.err # NoErr /\ last.ret.token = NoToken
        ELSE /\ last.ret.err = NoErr
             /\ last.ret.token.signed
             /\ last.ret.token.sub = last.userId
             /\ last.ret.token.iss =
                   [scheme |-> "https://", host |-> pn.InstanceId,
                    domain |-> ".pushnotifications.pusher.com"]
             /\ last.ret.token.exp = last.now + tokenLifetime
             /\ last.ret.token.exp > last.now

\* The text of a string field of a response body, "" when it is not there.
Text(body, f) == IF body.syntax = "object" /\ f.t = "string" THEN f.s ELSE ""

\* The body is JSON and none of the fields is a number.
Parses(body, fields) ==
    body.syntax # "invalid" /\ (body.syntax = "null" \/ \A f \in fields : f.t # "number")

\* C9: once the transport is invoked, a transport failure gives a network
\* error and never an API error; a response with a status other than 200
\* never gives a success and, when its body parses, gives the API error
\* "{error}: {description}" wrapped as a publish failure, whatever the
\* status; a response with status 200 gives no API error and no network error.
C9_UniformClassification ==
    last.op \in PublishOps /\ last.sent # <<>> =>
        /\ last.resp.kind \in {"doErr", "readErr"} =>
              /\ last.ret.publishId = ""
              /\ last.ret.err.msg \in NetworkMsgs
              /\ last.ret.err.msg # PublishFailedMsg
        /\ last.resp.kind = "resp" /\ last.resp.status # StatusOK =>
              /\ last.ret.publishId = "" /\ last.ret.err # NoErr
              /\ Parses(last.resp.body, {last.resp.body.error, last.resp.body.description})
                    => last.ret.err =
                          Wrap(Text(last.resp.body, last.resp.body.error) \o ": "
                                 \o Text(last.resp.body, last.resp.body.description),
                               PublishFailedMsg)
        /\ last.resp.kind = "resp" /\ last.resp.status = StatusOK =>
              last.ret.err.msg \notin NetworkMsgs \cup {PublishFailedMsg}

\* A 500 response whose body parses gave the API error of the body.
C9_Witness ==
    /\ last.op \in PublishOps
    /\ last.resp.kind = "resp" /\ last.resp.status = 500
    /\ last.ret.err = Wrap("ServerError: boom", PublishFailedMsg)

\* An interest as the claim rejects it.
InterestViolates(s) ==
    RuneCount(s) = 0 \/ RuneCount(s) > maxInterestLength
    \/ s.sp > 0 \/ s.w2 > 0 \/ s.w3 > 0 \/ s.bad > 0

\* The error is the error of the entry s: it is one of the three errors of an
\* entry and its message is formatted with s.
ErrorOfEntry(e, s) ==
    \/ e = Err(EmptyInterestMsg, 0, EmptyString, "") /\ RuneCount(s) = 0
    \/ e = Err(InterestTooLongMsg, len(s), EmptyString, "") /\ len(s) > maxInterestLength
    \/ e = Err(InterestForbiddenMsg, 0, s, "") /\ RuneCount(s) > 0 /\ InterestViolates(s)

===========================================================================
